---- MODULE Spec2Model ----
(***************************************************************************)
(* Floyd-Warshall on a packed symmetric path matrix                        *)
(* (src/src/lib.rs, src/src/matrices.rs).                                  *)
(*                                                                         *)
(* PathMatrix keeps one Path per unordered node pair in a flat array; all  *)
(* diagonal pairs share slot 0.  floyd_warshall seeds the matrix from the  *)
(* edges of the graph and then relaxes every pair n1 < n2 through every    *)
(* intermediate node k, rebuilding the stored intermediate-node sequence   *)
(* whenever the route through k is shorter.                                *)
(***************************************************************************)
EXTENDS Integers, Sequences, FiniteSets

VARIABLES
    n,      \* g.node_count(), the dimension of the matrix
    edges,  \* the edges {u, v} of a simple graph given up front, each as
            \* <<u, v, weight>> with u < v; {} where the graph view yields
            \* edges the model does not constrain
    todo,   \* the edges of the graph that g.edge_references() has yet to
            \* yield; the graph may list its edges in any order
    order,  \* the node indices in the order g.node_references() yields them
    m,      \* PathMatrix.m: slot index -> Path
    pc,     \* "new" | "ready" | "edges" | "relax" | "done" | "queried" |
            \* "changed" | "panic" (a failed assertion or bounds check) |
            \* "overflow" (n - 1 underflows in PathMatrix::new)
    ei,     \* number of edges consumed by the edge loop
    e,      \* the edge loop's current (n1, n2, w), <<>> outside the loop
    kp,     \* position in order of the intermediate node k
    n1,     \* the n1 of the relaxation loop
    n2,     \* the n2 of the relaxation loop
    reads,  \* the get_path_len calls of the latest relaxation step
    q,      \* the caller's latest call on the matrix it owns, <<>> if none yet
    calls   \* number of get and set calls the caller has made on the matrix

vars == <<n, edges, todo, order, m, pc, ei, e, kp, n1, n2, reads, q, calls>>

----------------------------------------------------------------------------
(* Bounds of the model.                                                    *)

\* largest node count of a graph handed to floyd_warshall
MaxN == 4
\* largest number of edges of an input graph
MaxEdges == 4
\* largest node count of a graph whose matrix the caller goes on to use
MaxNCaller == 4
\* largest number of edges of such a graph
MaxEdgesCaller == 2
\* largest number of get and set calls the caller makes on a matrix
MaxCalls == 2
\* largest of the small edge weights 0 .. MaxWeight
MaxWeight == 1
\* largest node count of a graph with small and large weights mixed freely
MaxNLong == 5
\* largest number of edges of such a graph
MaxEdgesLong == 4
\* largest dimension a bare PathMatrix is constructed with
MaxDim == 6
\* largest number of edges an unconstrained graph view yields
MaxAnyEdges == 2
\* largest node count of a graph with an unconstrained edge list
MaxNAny == 4
\* largest node count when the order of the intermediate nodes is free
MaxNOrder == 4
\* largest number of edges when the order of the intermediate nodes is free
MaxEdgesOrder == 4

----------------------------------------------------------------------------
(* matrices.rs: Path                                                       *)

\* A usize is kept as its decimal digits in three groups
\* <<high, middle, low>>, the middle and the low group of nine digits each:
\* 64-bit values do not fit the integers of TLC.
Group == 10 ^ 9

\* the usize of the number x, 0 <= x < 2^31
Usize(x) == <<0, x \div Group, x % Group>>

\* a < b on usize
Below(a, b) ==
    \/ a[1] < b[1]
    \/ a[1] = b[1] /\ a[2] < b[2]
    \/ a[1] = b[1] /\ a[2] = b[2] /\ a[3] < b[3]

\* std::usize::MAX = 18446744073709551615, the length a default Path carries
MAX == <<18, 446744073, 709551615>>

\* the edge weights of the inputs, and the lengths a caller writes, as
\* usize: small ones and the largest one
Weights == {Usize(x) : x \in 0..MaxWeight} \cup {MAX}

\* the weights 1 and usize::MAX only
LongWeights == {Usize(1), MAX}

\* the sum of a and b as a number, not limited to 64 bits (the high group
\* takes what goes beyond)
Plus(a, b) ==
    LET low == a[3] + b[3]
        mid == a[2] + b[2] + low \div Group
        high == a[1] + b[1] + mid \div Group
    IN  <<high, mid % Group, low % Group>>

\* Path::default
DefaultPath == [v |-> <<>>, len |-> MAX, exists |-> FALSE]

\* Path::set_len
set_len(p, x) == [p EXCEPT !.len = x, !.exists = TRUE]

\* Path::set_vector
set_vector(p, t) == [p EXCEPT !.v = t]

\* a plausible slip: the assertion is left out
PathLenNoAssert(p) == [ok |-> TRUE, val |-> p.len]

\* Path::len: the assertion fails on a path that does not exist
PathLen(p) == IF p.exists THEN [ok |-> TRUE, val |-> p.len]
                          ELSE [ok |-> FALSE, val |-> Usize(0)]

\* usize::saturating_add: the sum, or MAX if the sum is above MAX
saturating_add(a, b) == IF Below(MAX, Plus(a, b)) THEN MAX ELSE Plus(a, b)

----------------------------------------------------------------------------
(* matrices.rs: PathMatrix                                                 *)

\* a plausible slip: the shared diagonal slot is not counted
NElemsNoDiagonal(d) == (d * (d - 1)) \div 2

\* PathMatrix::new: let n_elems = 1 + n * (n - 1) / 2
NElems(d) == 1 + (d * (d - 1)) \div 2

\* PathMatrix::new
PathMatrixNew(d) == [s \in 0..(NElems(d) - 1) |-> DefaultPath]

RECURSIVE idx(_, _)

\* a plausible slip: the triangular row offset is left out
idxFlat(a, b) ==
    LET i == IF a > b THEN b ELSE a
        j == IF a > b THEN a ELSE b
    IN  IF i = j THEN 0 ELSE j + i

\* a plausible slip: the two indices are not swapped
idxNoSwap(i, j) ==
    IF i = j THEN 0
    ELSE IF j < 3 THEN j + i
    ELSE idx(0, j - 1) + (j - 1) + i

\* PathMatrix::idx
idx(a, b) ==
    LET i == IF a > b THEN b ELSE a
        j == IF a > b THEN a ELSE b
    IN  IF i = j THEN 0
        ELSE IF j < 3 THEN j + i
        ELSE idx(0, j - 1) + (j - 1) + i

\* the bounds check of self.m[idx]
InBounds(mm, i, j) == idx(i, j) \in DOMAIN mm

\* PathMatrix::get_path_len
get_path_len(mm, i, j) == PathLen(mm[idx(i, j)])

\* PathMatrix::get_path
get_path(mm, i, j) == mm[idx(i, j)]

\* PathMatrix::get_path_iter
get_path_iter(mm, i, j) == mm[idx(i, j)].v

\* PathMatrix::does_path_exist
does_path_exist(mm, i, j) == mm[idx(i, j)].exists

\* PathMatrix::set_path_len
set_path_len(mm, i, j, x) == [mm EXCEPT ![idx(i, j)] = set_len(@, x)]

\* PathMatrix::get_path_mut(i, j).set_vector(t)
set_path_vector(mm, i, j, t) == [mm EXCEPT ![idx(i, j)] = set_vector(@, t)]

\* Iterator::rev
Rev(s) == [x \in 1..Len(s) |-> s[Len(s) + 1 - x]]

----------------------------------------------------------------------------
(* lib.rs: floyd_warshall, one relaxation step                             *)

Nodes == 0..(n - 1)

\* k.weight(): the tests label node i with i (graph.add_node(i))
NodeWeight(k) == k

None == [some |-> FALSE, val |-> Usize(0)]
Some(x) == [some |-> TRUE, val |-> x]

\* a plausible slip: k is not kept from being an endpoint
SkipNoK(a, b, k) == a = b \/ a > b

\* the three `continue`s of the inner loop
Skip(a, b, k) == a = b \/ a > b \/ a = k \/ b = k

\* `if m.does_path_exist(n1, n2)`: the guard of the read of v1
HasV1(mm, a, b) == does_path_exist(mm, a, b)

\* a plausible slip: only the first leg is checked
V2ExistsFirstLeg(mm, a, k, b) == does_path_exist(mm, a, k)

\* v2_exists
V2Exists(mm, a, k, b) == does_path_exist(mm, a, k) /\ does_path_exist(mm, k, b)

\* one get_path_len call, with the exists flag of the slot at that moment
ReadOf(mm, i, j) == [i |-> i, j |-> j, exists |-> does_path_exist(mm, i, j)]

\* the get_path_len calls of one relaxation step, in program order, up to
\* and including the first whose assertion fails
ReadsOf(mm, a, b, k) ==
    LET r1 == IF HasV1(mm, a, b) THEN <<ReadOf(mm, a, b)>> ELSE <<>>
        ok1 == \A x \in 1..Len(r1) : r1[x].exists
        r2 == IF ok1 /\ V2Exists(mm, a, k, b) THEN <<ReadOf(mm, a, k)>> ELSE <<>>
        ok2 == ok1 /\ \A x \in 1..Len(r2) : r2[x].exists
        r3 == IF ok2 /\ V2Exists(mm, a, k, b) THEN <<ReadOf(mm, k, b)>> ELSE <<>>
    IN  r1 \o r2 \o r3

\* v1
V1(mm, a, b) ==
    IF HasV1(mm, a, b) THEN Some(get_path_len(mm, a, b).val) ELSE None

\* v2
V2(mm, a, k, b) ==
    IF V2Exists(mm, a, k, b)
    THEN Some(saturating_add(get_path_len(mm, a, k).val, get_path_len(mm, k, b).val))
    ELSE None

\* a plausible slip: the comparison is turned around
ShouldAdoptFlipped(v1, v2) == v2.some /\ (~v1.some \/ Below(v1.val, v2.val))

\* a plausible slip: a found path is never improved
ShouldAdoptFirst(v1, v2) == v2.some /\ ~v1.some

\* v2.is_some() && (v1.is_none() || v2.unwrap() < v1.unwrap())
ShouldAdopt(v1, v2) == v2.some /\ (~v1.some \/ Below(v2.val, v1.val))

\* a plausible slip: the sub-paths are never reversed
NewVectorForward(mm, a, b, k) ==
    get_path_iter(mm, a, k) \o <<NodeWeight(k)>> \o get_path_iter(mm, k, b)

\* the vector v built from the two sub-paths and k
NewVector(mm, a, b, k) ==
    (IF a <= k THEN get_path_iter(mm, a, k) ELSE Rev(get_path_iter(mm, a, k)))
    \o <<NodeWeight(k)>>
    \o (IF k <= b THEN get_path_iter(mm, k, b) ELSE Rev(get_path_iter(mm, k, b)))

\* the body of the inner loop for a pair that is not skipped:
\* the matrix after it, whether it ran through (no assertion of Path::len
\* and no bounds check failed), and the lengths it read.  The accessors
\* check the bounds call by call: does_path_exist(n1, n2) first; then, after
\* the read of (n1, n2), does_path_exist(n1, k); and, only if that is
\* true, does_path_exist(k, n2).
RelaxStep(mm, a, b, k) ==
    IF ~InBounds(mm, a, b)
    THEN [m |-> mm, ok |-> FALSE, reads |-> <<>>]
    ELSE IF ~InBounds(mm, a, k) \/ (does_path_exist(mm, a, k) /\ ~InBounds(mm, k, b))
    THEN [m |-> mm, ok |-> FALSE,
          reads |-> IF HasV1(mm, a, b) THEN <<ReadOf(mm, a, b)>> ELSE <<>>]
    ELSE
    LET rs == ReadsOf(mm, a, b, k)
        ok == \A x \in 1..Len(rs) : rs[x].exists
        v1 == V1(mm, a, b)
        v2 == V2(mm, a, k, b)
        m1 == set_path_len(mm, a, b, v2.val)
        m2 == set_path_vector(m1, a, b, NewVector(m1, a, b, k))
    IN  IF ~ok THEN [m |-> mm, ok |-> FALSE, reads |-> rs]
        ELSE IF ShouldAdopt(v1, v2) THEN [m |-> m2, ok |-> TRUE, reads |-> rs]
        ELSE [m |-> mm, ok |-> TRUE, reads |-> rs]

----------------------------------------------------------------------------
(* lib.rs: floyd_warshall, the loops                                       *)

RECURSIVE SeekIn(_, _, _, _, _)
\* the first position at or after (p, a, b), in the order of the three
\* nested loops over nn nodes with the intermediate nodes taken in the
\* order ord, whose pair is not skipped; <<nn + 1, 0, 0>> past the end
SeekIn(nn, ord, p, a, b) ==
    IF p > nn THEN <<nn + 1, 0, 0>>
    ELSE IF a >= nn THEN SeekIn(nn, ord, p + 1, 0, 0)
    ELSE IF b >= nn THEN SeekIn(nn, ord, p, a + 1, 0)
    ELSE IF Skip(a, b, ord[p]) THEN SeekIn(nn, ord, p, a, b + 1)
    ELSE <<p, a, b>>

\* the same on the graph of the run
Seek(p, a, b) == SeekIn(n, order, p, a, b)

\* the intermediate node of the current pass
K == order[kp]

\* PathMatrix::new(g.node_count()) and m.set_path_len(0, 0, 0); the graph is
\* undirected, so that the assertion on is_directed passes.  (For n = 0 in
\* a build without overflow checks n * (n - 1) wraps to 0: one slot.)
Start ==
    /\ pc = "new"
    /\ m' = set_path_len(PathMatrixNew(n), 0, 0, Usize(0))
    /\ pc' = "edges"
    /\ UNCHANGED <<n, edges, todo, order, ei, e, kp, n1, n2, reads, q, calls>>

\* PathMatrix::new(0) in a build with overflow checks: n - 1 underflows
NewOverflow ==
    /\ pc = "new"
    /\ n = 0
    /\ pc' = "overflow"
    /\ UNCHANGED <<n, edges, todo, order, m, ei, e, kp, n1, n2, reads, q, calls>>

\* one turn of `for e in g.edge_references()`, for the edge (u, v, w),
\* w the weight as a usize (w.into())
EdgeTurn(u, v, w) ==
    /\ ei' = ei + 1
    /\ e' = <<u, v, w>>
    /\ IF InBounds(m, u, v)
       THEN m' = set_path_len(m, u, v, w) /\ pc' = "edges"
       ELSE m' = m /\ pc' = "panic"
    /\ UNCHANGED <<n, edges, order, kp, n1, n2, reads, q, calls>>

\* the edge loop on an undirected simple graph: the graph yields the next
\* edge of its list, which may be any edge not yet yielded, with its
\* endpoints as source and target either way round
AddEdge ==
    /\ pc = "edges"
    /\ todo # {}
    /\ \E ed \in todo, flip \in BOOLEAN :
          /\ IF flip THEN EdgeTurn(ed[2], ed[1], ed[3])
                     ELSE EdgeTurn(ed[1], ed[2], ed[3])
          /\ todo' = todo \ {ed}

\* the edge loop is over; the relaxation loops begin
EndEdges ==
    /\ pc = "edges"
    /\ todo = {}
    /\ LET pos == Seek(1, 0, 0)
       IN  /\ kp' = pos[1]
           /\ n1' = pos[2]
           /\ n2' = pos[3]
           /\ pc' = IF pos[1] > n THEN "done" ELSE "relax"
    /\ e' = <<>>
    /\ UNCHANGED <<n, edges, todo, order, m, ei, reads, q, calls>>

\* the body of the inner loop for the next pair that is not skipped
Relax ==
    /\ pc = "relax"
    /\ LET r == RelaxStep(m, n1, n2, K)
           pos == Seek(kp, n1, n2 + 1)
       IN  /\ m' = r.m
           /\ reads' = r.reads
           /\ IF r.ok
              THEN /\ kp' = pos[1]
                   /\ n1' = pos[2]
                   /\ n2' = pos[3]
                   /\ pc' = IF pos[1] > n THEN "done" ELSE "relax"
              ELSE /\ pc' = "panic"
                   /\ UNCHANGED <<kp, n1, n2>>
    /\ UNCHANGED <<n, edges, todo, order, ei, e, q, calls>>

\* the states in which the caller owns a matrix: returned by floyd_warshall
\* ("done") or made by PathMatrix::new ("ready"), and after a get
\* ("queried") or a set ("changed") call on it
Owned == {"done", "ready", "queried", "changed"}

\* the caller asks the matrix about the pair (i, j): does_path_exist,
\* get_path_len and get_path, each of which indexes self.m with idx(i, j)
Query ==
    /\ pc \in Owned
    /\ calls < MaxCalls
    /\ \E i \in Nodes, j \in Nodes :
          IF InBounds(m, i, j)
          THEN /\ q' = [op |-> "get", i |-> i, j |-> j, slot |-> idx(i, j),
                        exists |-> does_path_exist(m, i, j),
                        len |-> get_path_len(m, i, j),
                        path |-> get_path(m, i, j).v]
               /\ pc' = "queried"
          ELSE /\ q' = [op |-> "get", i |-> i, j |-> j, slot |-> idx(i, j)]
               /\ pc' = "panic"
    /\ calls' = calls + 1
    /\ UNCHANGED <<n, edges, todo, order, m, ei, e, kp, n1, n2, reads>>

\* set_path_len is public: the caller writes the length x for the pair
\* (i, j), any number of times
CallerSet ==
    /\ pc \in Owned
    /\ calls < MaxCalls
    /\ \E i \in Nodes, j \in Nodes, x \in Weights :
          /\ q' = [op |-> "set", i |-> i, j |-> j, slot |-> idx(i, j), x |-> x]
          /\ IF InBounds(m, i, j)
             THEN m' = set_path_len(m, i, j, x) /\ pc' = "changed"
             ELSE m' = m /\ pc' = "panic"
    /\ calls' = calls + 1
    /\ UNCHANGED <<n, edges, todo, order, ei, e, kp, n1, n2, reads>>

----------------------------------------------------------------------------
(* The inputs: undirected simple graphs.                                   *)

PairsOf(nn) == {p \in (0..(nn - 1)) \X (0..(nn - 1)) : p[1] < p[2]}

\* petgraph's Graph yields its nodes by index
IndexOrder(nn) == [x \in 1..nn |-> x - 1]

\* a graph of up to maxN nodes with up to maxE edges, with weights of W,
\* at most one edge per unordered pair of distinct nodes; none of them has
\* been yielded
InitGraph(maxN, maxE, W) ==
    /\ n \in 0..maxN
    /\ \E S \in {T \in SUBSET PairsOf(n) : Cardinality(T) <= maxE} :
          \E w \in [S -> W] : edges = {<<p[1], p[2], w[p]>> : p \in S}
    /\ todo = edges
    /\ m = <<>>
    /\ pc = "new"
    /\ ei = 0
    /\ e = <<>>
    /\ kp = 0
    /\ n1 = 0
    /\ n2 = 0
    /\ reads = <<>>
    /\ q = <<>>
    /\ calls = 0

\* one call of floyd_warshall, up to its return
NextRun == Start \/ NewOverflow \/ AddEdge \/ EndEdges \/ Relax

InitRun ==
    /\ InitGraph(MaxN, MaxEdges, Weights)
    /\ order = IndexOrder(n)

SpecRun == InitRun /\ [][NextRun]_vars

\* the same on larger graphs with fewer weights
InitLong ==
    /\ InitGraph(MaxNLong, MaxEdgesLong, LongWeights)
    /\ order = IndexOrder(n)

SpecLong == InitLong /\ [][NextRun]_vars

\* a call of floyd_warshall and what the caller then does with the matrix
Init ==
    /\ InitGraph(MaxNCaller, MaxEdgesCaller, Weights)
    /\ order = IndexOrder(n)

Next == NextRun \/ Query \/ CallerSet

Spec == Init /\ [][Next]_vars

----------------------------------------------------------------------------
(* A graph view that yields any edges: self-loops, parallel edges, either  *)
(* direction.                                                              *)

\* one turn of the edge loop on an edge the model does not constrain
AddAnyEdge ==
    /\ pc = "edges"
    /\ ei < MaxAnyEdges
    /\ \E u \in Nodes, v \in Nodes, w \in Weights : EdgeTurn(u, v, w)
    /\ UNCHANGED todo

InitAny ==
    /\ n \in 0..MaxNAny
    /\ edges = {}
    /\ todo = {}
    /\ order = IndexOrder(n)
    /\ m = <<>>
    /\ pc = "new"
    /\ ei = 0
    /\ e = <<>>
    /\ kp = 0
    /\ n1 = 0
    /\ n2 = 0
    /\ reads = <<>>
    /\ q = <<>>
    /\ calls = 0

NextAny ==
    Start \/ NewOverflow \/ AddAnyEdge \/ EndEdges \/ Relax \/ Query \/ CallerSet

SpecAny == InitAny /\ [][NextAny]_vars

----------------------------------------------------------------------------
(* The intermediate nodes taken in any order.                              *)

Perms(nn) ==
    {f \in [1..nn -> 0..(nn - 1)] : \A x \in 1..nn, y \in 1..nn : f[x] = f[y] => x = y}

InitOrder ==
    /\ InitGraph(MaxNOrder, MaxEdgesOrder, LongWeights)
    /\ order \in Perms(n)

SpecOrder == InitOrder /\ [][NextRun]_vars

RECURSIVE SeedFrom(_, _, _)
\* the edge loop on the edge list es from its x-th edge on
SeedFrom(mm, es, x) ==
    IF x > Len(es) THEN mm
    ELSE SeedFrom(set_path_len(mm, es[x][1], es[x][2], es[x][3]), es, x + 1)

RECURSIVE RelaxFrom(_, _, _, _)
\* the relaxation loops from position pos on
RelaxFrom(mm, nn, ord, pos) ==
    IF pos[1] > nn THEN mm
    ELSE RelaxFrom(RelaxStep(mm, pos[2], pos[3], ord[pos[1]]).m, nn, ord,
                   SeekIn(nn, ord, pos[1], pos[2], pos[3] + 1))

\* floyd_warshall as a function of the graph and of the order in which the
\* graph yields its nodes
RunFW(nn, es, ord) ==
    RelaxFrom(SeedFrom(set_path_len(PathMatrixNew(nn), 0, 0, Usize(0)), es, 1),
              nn, ord, SeekIn(nn, ord, 1, 0, 0))

----------------------------------------------------------------------------
(* A bare PathMatrix: construction and the calls of its owner.             *)

\* PathMatrix::new(n).  (For n = 0 in a build without overflow checks
\* n * (n - 1) wraps to 0: one slot.)
NewMatrix ==
    /\ pc = "new"
    /\ m' = PathMatrixNew(n)
    /\ pc' = "ready"
    /\ UNCHANGED <<n, edges, todo, order, ei, e, kp, n1, n2, reads, q, calls>>

InitIdx ==
    /\ n \in 0..MaxDim
    /\ edges = {}
    /\ todo = {}
    /\ order = IndexOrder(n)
    /\ m = <<>>
    /\ pc = "new"
    /\ ei = 0
    /\ e = <<>>
    /\ kp = 0
    /\ n1 = 0
    /\ n2 = 0
    /\ reads = <<>>
    /\ q = <<>>
    /\ calls = 0

NextIdx == NewMatrix \/ NewOverflow \/ Query \/ CallerSet

SpecIdx == InitIdx /\ [][NextIdx]_vars

----------------------------------------------------------------------------
(* An independent reference: shortest distances by enumeration of walks.   *)

\* there is an input edge between i and j
HasEdge(i, j) == \E ed \in edges : {ed[1], ed[2]} = {i, j}

\* its weight
EdgeWeight(i, j) == (CHOOSE ed \in edges : {ed[1], ed[2]} = {i, j})[3]

\* every two consecutive nodes of s are joined by an input edge
IsWalk(s) == \A x \in 1..(Len(s) - 1) : HasEdge(s[x], s[x + 1])

RECURSIVE WalkWeightFrom(_, _)
WalkWeightFrom(s, x) ==
    IF x >= Len(s) THEN Usize(0)
    ELSE Plus(EdgeWeight(s[x], s[x + 1]), WalkWeightFrom(s, x + 1))

\* the sum of the input weights along the walk s, as a number
WalkWeight(s) == WalkWeightFrom(s, 1)

\* the least element of a non-empty set of numbers
Least(S) == CHOOSE d \in S : \A d2 \in S : ~Below(d2, d)

\* stands for: there is no walk
NoWalk == <<-1, 0, 0>>

RECURSIVE MinWalk(_, _, _)
\* the least total weight, as a number, of a walk from i to j with at most
\* h edges; NoWalk if there is none
MinWalk(i, j, h) ==
    IF i = j THEN Usize(0)
    ELSE IF h = 0 THEN NoWalk
    ELSE LET via == {LET d == MinWalk(x, j, h - 1)
                     IN  IF d = NoWalk THEN NoWalk ELSE Plus(EdgeWeight(i, x), d) :
                         x \in {y \in Nodes : HasEdge(i, y)}} \ {NoWalk}
         IN  IF via = {} THEN NoWalk ELSE Least(via)

\* i and j are in the same component: with weights >= 0 a walk with more
\* than n - 1 edges reaches nothing new and is never shorter
Connected(i, j) == MinWalk(i, j, n - 1) # NoWalk

\* the least total weight of a walk from i to j (connected), as a number
RefDist(i, j) == MinWalk(i, j, n - 1)

\* a number as a usize result: what is above usize::MAX reads usize::MAX
Cap(x) == IF Below(MAX, x) THEN MAX ELSE x

----------------------------------------------------------------------------
(* Claims about floyd_warshall on undirected simple graphs (SpecRun, Spec).*)

\* C1 as stated: when floyd_warshall has returned, for all nodes i # j,
\* does_path_exist(i, j) holds exactly when i and j are connected in the
\* input graph, and then get_path_len(i, j) is the least total weight of a
\* walk from i to j.
C1_ShortestDistances ==
    pc = "done" =>
        \A i \in Nodes, j \in Nodes :
            i # j =>
                /\ does_path_exist(m, i, j) <=> Connected(i, j)
                /\ Connected(i, j) =>
                       get_path_len(m, i, j) = [ok |-> TRUE, val |-> RefDist(i, j)]

\* C1 amended: when floyd_warshall has returned, for all nodes i # j,
\* does_path_exist(i, j) holds exactly when i and j are connected in the
\* input graph, and then get_path_len(i, j) is the least total weight of a
\* walk from i to j if that is at most usize::MAX, and usize::MAX if it is
\* more.
C1_CappedDistances ==
    pc = "done" =>
        \A i \in Nodes, j \in Nodes :
            i # j =>
                /\ does_path_exist(m, i, j) <=> Connected(i, j)
                /\ Connected(i, j) =>
                       get_path_len(m, i, j) =
                           [ok |-> TRUE, val |-> Cap(RefDist(i, j))]

\* C1 witness: a returned matrix in which a route over two intermediate
\* nodes was found, a direct edge was beaten by a route through another
\* node, and the least weight between some pair is above usize::MAX.
C1_Witness ==
    /\ pc = "done"
    /\ \E i \in Nodes, j \in Nodes : Len(get_path(m, i, j).v) >= 2
    /\ \E i \in Nodes, j \in Nodes :
          /\ i # j
          /\ HasEdge(i, j)
          /\ does_path_exist(m, i, j)
          /\ Below(get_path_len(m, i, j).val, EdgeWeight(i, j))
    /\ \E i \in Nodes, j \in Nodes :
          i # j /\ Connected(i, j) /\ Below(MAX, RefDist(i, j))

\* C2 as stated: when floyd_warshall has returned, for all i < j with a
\* path, the nodes i, the stored intermediate nodes in stored order, j form
\* a walk of the input graph whose total input weight is
\* get_path_len(i, j); neither endpoint is stored.
C2_StoredPathIsWalk ==
    pc = "done" =>
        \A i \in Nodes, j \in Nodes :
            (i < j /\ does_path_exist(m, i, j)) =>
                LET v == get_path(m, i, j).v
                    w == <<i>> \o v \o <<j>>
                IN  /\ IsWalk(w)
                    /\ WalkWeight(w) = get_path_len(m, i, j).val
                    /\ \A x \in 1..Len(v) : v[x] # i /\ v[x] # j

\* C2 amended: when floyd_warshall has returned, for all i < j with a
\* path, the nodes i, the stored intermediate nodes in stored order, j form
\* a walk of the input graph; get_path_len(i, j) is the total input weight
\* of that walk if that is at most usize::MAX, and usize::MAX if it is
\* more; neither endpoint is stored.
C2_StoredPathCapped ==
    pc = "done" =>
        \A i \in Nodes, j \in Nodes :
            (i < j /\ does_path_exist(m, i, j)) =>
                LET v == get_path(m, i, j).v
                    w == <<i>> \o v \o <<j>>
                IN  /\ IsWalk(w)
                    /\ Cap(WalkWeight(w)) = get_path_len(m, i, j).val
                    /\ \A x \in 1..Len(v) : v[x] # i /\ v[x] # j

\* C2 witness: a returned matrix that stores, for some i < j, three
\* intermediate nodes that are not in index order, along a walk whose
\* weight is above usize::MAX.
C2_Witness ==
    /\ pc = "done"
    /\ \E i \in Nodes, j \in Nodes :
          /\ i < j
          /\ does_path_exist(m, i, j)
          /\ Len(get_path(m, i, j).v) = 3
          /\ get_path(m, i, j).v[1] > get_path(m, i, j).v[2]
          /\ Below(MAX, WalkWeight(<<i>> \o get_path(m, i, j).v \o <<j>>))

\* C5 as stated: for a pair of nodes in different components the caller,
\* asking the matrix as floyd_warshall returned it (its first call), finds
\* does_path_exist false and get_path_len returns the maximal value.
C5_SentinelReturned ==
    (pc = "queried" /\ calls = 1 /\ ~Connected(q.i, q.j)) =>
        /\ q.exists = FALSE
        /\ q.len = [ok |-> TRUE, val |-> MAX]

\* C5 amended: for a pair of nodes in different components the caller,
\* asking the matrix as floyd_warshall returned it (its first call), finds
\* does_path_exist false; the slot still holds the default path (no nodes,
\* the maximal length), but get_path_len fails the assertion of Path::len
\* instead of returning a value.
C5_AssertionFails ==
    (pc = "queried" /\ calls = 1 /\ ~Connected(q.i, q.j)) =>
        /\ q.exists = FALSE
        /\ q.len.ok = FALSE
        /\ get_path(m, q.i, q.j) = DefaultPath

\* C5 witness: the caller has asked about two nodes of different components
\* of a graph that has edges.
C5_Witness ==
    /\ pc = "queried"
    /\ calls = 1
    /\ ~Connected(q.i, q.j)
    /\ Cardinality(edges) >= 2
    /\ q.exists = FALSE

\* C7: floyd_warshall never stops on a failed assertion or bounds check, and
\* every get_path_len call of a relaxation step found the exists flag of
\* its slot set.
C7_ReadsOnlyExisting ==
    /\ pc # "panic"
    /\ \A x \in 1..Len(reads) : reads[x].exists

\* C7 witness: a relaxation step has read all three lengths, and some pair
\* has no path.
C7_Witness ==
    /\ pc \in {"relax", "done"}
    /\ Len(reads) = 3
    /\ \E i \in Nodes, j \in Nodes : ~does_path_exist(m, i, j)

\* C9: a relaxation step for the pair (n1, n2) in the pass of k has n1 < n2
\* and k not among them, changes no slot but the one of (n1, n2), leaves
\* the slots of all pairs with endpoint k and the diagonal slot as they
\* are, and the slots it reads for (n1, k) and (k, n2) are not the one it
\* writes.
C9_RelaxFrame ==
    [][pc = "relax" =>
          /\ n1 < n2 /\ n1 # K /\ n2 # K
          /\ \A s \in DOMAIN m : m'[s] # m[s] => s = idx(n1, n2)
          /\ \A x \in Nodes : m'[idx(x, K)] = m[idx(x, K)]
          /\ m'[0] = m[0]
          /\ idx(n1, K) # idx(n1, n2)
          /\ idx(K, n2) # idx(n1, n2)]_vars

\* C9 witness: in the middle of a pass, after a step that stored a new
\* path.
C9_Witness ==
    /\ pc = "relax"
    /\ Len(reads) >= 2
    /\ \E s \in DOMAIN m : m[s].v # <<>>

----------------------------------------------------------------------------
(* Claims about floyd_warshall on any edge list (SpecAny).                 *)

\* C4 as stated: when floyd_warshall has returned, every node v has
\* does_path_exist(v, v) and get_path_len(v, v) = 0.
C4_DiagonalZero ==
    pc = "done" =>
        \A v \in Nodes :
            /\ does_path_exist(m, v, v)
            /\ get_path_len(m, v, v) = [ok |-> TRUE, val |-> Usize(0)]

\* C6: idx(i, j) = idx(j, i) for all i, j < n (stated for i < j; i = j is
\* the same call twice); in every state of the matrix existence and length
\* read the same through (i, j) and (j, i), also after the caller's
\* set_path_len calls; the value that the edge loop or the caller has just
\* written with set_path_len(i, j, v) is what get_path_len returns through
\* (j, i); and what the caller has just read through (i, j) is what (j, i)
\* reads.
C6_Symmetric ==
    /\ \A i \in Nodes, j \in Nodes : i < j => idx(i, j) = idx(j, i)
    /\ pc \in {"edges", "relax", "done", "queried", "changed"} =>
          \A i \in Nodes, j \in Nodes :
              i < j =>
                  /\ does_path_exist(m, i, j) = does_path_exist(m, j, i)
                  /\ get_path_len(m, i, j) = get_path_len(m, j, i)
    /\ (pc = "edges" /\ e # <<>>) =>
          get_path_len(m, e[2], e[1]) = [ok |-> TRUE, val |-> e[3]]
    /\ pc = "changed" =>
          get_path_len(m, q.j, q.i) = [ok |-> TRUE, val |-> q.x]
    /\ pc = "queried" =>
          /\ q.exists = does_path_exist(m, q.j, q.i)
          /\ q.len = get_path_len(m, q.j, q.i)

\* C6 witness: after relaxation steps that stored a path, the caller has
\* made two calls, the second a write through (i, j) with i > j >= 1 and
\* i >= 3, where idx recurses, over another length.
C6_Witness ==
    /\ pc = "changed"
    /\ calls = 2
    /\ q.i >= 3 /\ q.j >= 1 /\ q.i > q.j
    /\ get_path(m, q.i, q.j).v # <<>>
    /\ \E s \in DOMAIN m : s # idx(q.i, q.j) /\ m[s].exists /\ m[s].len # q.x

----------------------------------------------------------------------------
(* Claims about the order of the intermediate nodes (SpecOrder).           *)

\* p comes before r, or is r, in the order by source, then by target
Before(p, r) == p[1] < r[1] \/ (p[1] = r[1] /\ p[2] <= r[2])

RECURSIVE EdgeList(_)
\* the edges S as a list in that order
EdgeList(S) ==
    IF S = {} THEN <<>>
    ELSE LET ed == CHOOSE x \in S : \A r \in S : Before(x, r)
         IN  <<ed>> \o EdgeList(S \ {ed})

\* C8: whatever the order in which the nodes are taken as k (and the edges
\* are listed), the returned existence flags and lengths of all pairs are
\* those of the run that takes the nodes in index order.
C8_OrderIndependent ==
    pc = "done" =>
        LET r == RunFW(n, EdgeList(edges), IndexOrder(n))
        IN  \A i \in Nodes, j \in Nodes :
                /\ does_path_exist(m, i, j) = does_path_exist(r, i, j)
                /\ get_path_len(m, i, j) = get_path_len(r, i, j)

\* C8 witness: a run in another order has returned, and it stores for some
\* pair other intermediate nodes than the run in index order.
C8_Witness ==
    /\ pc = "done"
    /\ order # IndexOrder(n)
    /\ LET r == RunFW(n, EdgeList(edges), IndexOrder(n))
       IN  \E i \in Nodes, j \in Nodes : get_path(m, i, j).v # get_path(r, i, j).v

----------------------------------------------------------------------------
(* Claims about the bare matrix (SpecIdx).                                 *)

\* the slot indices of all pairs of nodes
IdxImage == {idx(i, j) : i \in Nodes, j \in Nodes}

\* C3 as stated: new(n) has n * (n + 1) / 2 slots and idx maps the
\* unordered pairs, diagonal included, one-to-one onto the slot indices.
C3_PackedBijection ==
    pc = "ready" =>
        /\ Cardinality(DOMAIN m) = (n * (n + 1)) \div 2
        /\ IdxImage = 0..((n * (n + 1)) \div 2 - 1)
        /\ \A i \in Nodes, j \in Nodes, a \in Nodes, b \in Nodes :
               idx(i, j) = idx(a, b) => {i, j} = {a, b}

\* C3 amended: for n >= 1, new(n) has 1 + n * (n - 1) / 2 slots, and still
\* has them after the caller's calls; idx maps every diagonal pair to slot 0
\* and the off-diagonal unordered pairs one-to-one onto the slots
\* 1 .. n * (n - 1) / 2, so every slot is the image of some pair and two
\* pairs share a slot only if both are diagonal.
C3_SharedDiagonalBijection ==
    /\ (pc \in Owned /\ n >= 1) => DOMAIN m = 0..((n * (n - 1)) \div 2)
    /\ (pc = "ready" /\ n >= 1) =>
          /\ IdxImage = DOMAIN m
          /\ \A i \in Nodes : idx(i, i) = 0
          /\ {idx(p[1], p[2]) : p \in {r \in Nodes \X Nodes : r[1] # r[2]}}
                 = 1..((n * (n - 1)) \div 2)
          /\ \A i \in Nodes, j \in Nodes, a \in Nodes, b \in Nodes :
                 idx(i, j) = idx(a, b) => ({i, j} = {a, b} \/ (i = j /\ a = b))

\* C3 witness: on a matrix of dimension >= 5, where idx recurses more than
\* once, the caller has written to the last slot and to another one.
C3_Witness ==
    /\ pc = "changed"
    /\ calls = 2
    /\ n >= 5
    /\ q.slot = (n * (n - 1)) \div 2
    /\ \E s \in DOMAIN m : s # q.slot /\ m[s].exists

\* C10: for n >= 1 and all i, j < n the index idx(i, j) is below the number
\* of slots new(n) allocates, 1 + n * (n - 1) / 2, so that no call of an
\* accessor fails the bounds check; it is 0 exactly when i = j; and two
\* different unordered off-diagonal pairs have different indices.
C10_IndexInBounds ==
    /\ pc # "panic"
    /\ (pc \in Owned /\ q # <<>>) =>
          /\ q.slot \in DOMAIN m
          /\ q.slot = 0 <=> q.i = q.j
    /\ (pc = "ready" /\ n >= 1) =>
          /\ Cardinality(DOMAIN m) = 1 + (n * (n - 1)) \div 2
          /\ \A i \in Nodes, j \in Nodes :
                 /\ idx(i, j) >= 0
                 /\ idx(i, j) < Cardinality(DOMAIN m)
                 /\ idx(i, j) \in DOMAIN m
                 /\ idx(i, j) = 0 <=> i = j
          /\ \A i \in Nodes, j \in Nodes, a \in Nodes, b \in Nodes :
                 (i # j /\ a # b /\ {i, j} # {a, b}) => idx(i, j) # idx(a, b)

\* C10 witness: the caller has read, after a write, a slot whose index is
\* computed through the recursion of idx, with i > j, on a matrix of
\* dimension >= 4.
C10_Witness ==
    /\ pc = "queried"
    /\ calls = 2
    /\ n >= 4
    /\ q.i >= 3 /\ q.j >= 1 /\ q.i > q.j
    /\ q.slot \in DOMAIN m
    /\ \E s \in DOMAIN m : m[s].exists

====
